---- MODULE Spec2Model ----
(***************************************************************************)
(* Particle fire simulation of fire_entropy.py (class FireWidget).         *)
(*                                                                         *)
(* Numbers are fixed point:                                                *)
(*   energy            hundredths (the slider's integer value, 50 = 0.50)  *)
(*   life, life0, dt   microseconds                                        *)
(*   pos               1e-3 world units,  vel  1e-3 units per second       *)
(*   radius            1e-6 world units                                    *)
(*   age01, alpha, sines and cosines   thousandths                         *)
(*   damping           1e-4                                                *)
(*   rot_x, rot_y and every angle      half degrees (720 = a full turn)    *)
(* A time step is given as a whole number n of 1/120 s.                    *)
(***************************************************************************)
EXTENDS Integers, Sequences, FiniteSets, TLC

VARIABLES
    particles,      \* self.particles, in list order
    energy,         \* self.energy
    rot_x, rot_y,   \* camera rotation
    is_dragging,    \* self.is_dragging
    last_mouse_pos, \* self.last_mouse_pos, <<>> for None
    rng,            \* state of the random module's generator, <<key, ctr>>
    nextId,         \* number of FireParticle objects created so far
    last_dt,        \* dt of the last _update_particles call, microseconds
    drawn,          \* the _draw_sphere calls of the last paintGL, in order
    evicted,        \* particles the cap cut off, if the last call was a spawn
    removed,        \* particle objects left out of alive, if it was an update
    dead,           \* ids of all particles an update has left out so far
    spawns, advances, moves, drags   \* calls made so far

vars == <<particles, energy, rot_x, rot_y, is_dragging, last_mouse_pos, rng,
          nextId, last_dt, drawn, evicted, removed, dead,
          spawns, advances, moves, drags>>

(***************************************************************************)
(* Bounds of the exploration.                                              *)
(***************************************************************************)
MaxSpawns == 2
MaxAdvances == 2
MaxCapSpawns == 3
MaxCapAdvances == 1
MaxMoves == 1
MaxDrags == 1
MaxFrames == 152
SliderPeriod == 150
MaxKey == 1
RandMax == 4

(***************************************************************************)
(* Program constants.                                                      *)
(***************************************************************************)
MaxParticles == 2500
DtDen == 120

SliderValues == {0, 50, 100}
ValidDts == {1, 60}
TimerRemaining == {0, 8}
PressPositions == {<<0, 0>>}
MovePositions == {<<290, -36>>}
RawEnergies == {-200, -5, 150, 200}
RawDts == {-1, 0, 1}
CapEnergies == {15000}

(***************************************************************************)
(* Arithmetic helpers.                                                     *)
(***************************************************************************)
Max(a, b) == IF a >= b THEN a ELSE b

Min(a, b) == IF a <= b THEN a ELSE b

\* floor(v * f / one), computed without leaving 32 bits
Mul(v, f, one) == (v \div one) * f + ((v % one) * f) \div one

\* floor(1000 * a / d) for d > 0, by long division
FracMilli(a, d) ==
    LET r0 == a % d
        r1 == (r0 * 10) % d
        r2 == (r1 * 10) % d
    IN (a \div d) * 1000 + ((r0 * 10) \div d) * 100
       + ((r1 * 10) \div d) * 10 + (r2 * 10) \div d

\* int(x / 1000000): truncation towards zero
IntPart(x) == IF x >= 0 THEN x \div 1000000 ELSE -((-x) \div 1000000)

_clamp01(x) == Max(0, Min(100, x))

_lerp(a, b, t) == a + Mul(b - a, t, 100)

\* sine of h half degrees, in thousandths
Sin1000(h) ==
    LET m == h % 720
        x == IF m <= 360 THEN m ELSE m - 360
        b == (4000 * x * (360 - x)) \div (162000 - x * (360 - x))
    IN IF m <= 360 THEN b ELSE -b

Cos1000(h) == Sin1000(h + 180)

\* sine and cosine of an angle given in milliradians
SinRad(mrad) == Sin1000((mrad * 1146) \div 10000)

CosRad(mrad) == Cos1000((mrad * 1146) \div 10000)

Dot(a, b) == a[1] * b[1] + a[2] * b[2] + a[3] * b[3]

(***************************************************************************)
(* The random module: a small counter generator <<key, ctr>>.  Key 0 is    *)
(* the stream in which every draw is RandMax, the largest double below 1.  *)
(***************************************************************************)
\* the k-th next draw from generator state r, k = 0 for the next one
Rand(r, k) == (RandMax + r[1] * (r[2] + k + 1)) % (RandMax + 1)

\* generator state after k draws
RandAfter(r, k) == <<r[1], (r[2] + k) % (RandMax + 1)>>

\* random.uniform(a, b) on draw u
Uniform(a, b, u) == a + Mul(b - a, u, RandMax)

\* (u / RandMax) ** 0.6 in thousandths
Pow06(u) ==
    LET x == (u * 1000) \div RandMax
        T == <<0, 435, 660, 841, 1000>>
        i == Min(x \div 250, 3)
    IN T[i + 1] + ((T[i + 2] - T[i + 1]) * (x - 250 * i)) \div 250

(***************************************************************************)
(* _spawn_particles                                                        *)
(***************************************************************************)
\* variant of SpawnCount: the extra particle is also added when the draw
\* equals the fractional part
SpawnCountLe(e, u) ==
    LET spawn_float == _lerp(1500000, 10000000, e)
        count == IntPart(spawn_float)
    IN IF u * 1000000 <= (spawn_float - count * 1000000) * RandMax
       THEN count + 1 ELSE count

\* variant of SpawnCount: the rate is rounded up
SpawnCountCeil(e, u) == IntPart(_lerp(1500000, 10000000, e)) + 1

\* lines 230-233: the number of particles to insert, u the first draw
SpawnCount(e, u) ==
    LET spawn_float == _lerp(1500000, 10000000, e)
        count == IntPart(spawn_float)
    IN IF u * 1000000 < (spawn_float - count * 1000000) * RandMax
       THEN count + 1 ELSE count

\* lines 237-266: one particle, built from the nine draws that follow draw k
NewParticle(e, r, k, id) ==
    LET rr == 180 + (100 * (100 - e)) \div 100
        angle == (Rand(r, k) * 720) \div RandMax
        rad == Mul(rr, Pow06(Rand(r, k + 1)), 1000)
        x == Mul(rad, Cos1000(angle), 1000)
        z == Mul(rad, Sin1000(angle), 1000)
        y == -1000 + Uniform(0, 50, Rand(r, k + 2))
        base_up == _lerp(900, 2400, e)
        vy == Uniform((base_up * 6) \div 10, (base_up * 11) \div 10,
                      Rand(r, k + 3))
        side == _lerp(450, 900, e)
        vx == Uniform(-side, side, Rand(r, k + 4))
        vz == Uniform(-side, side, Rand(r, k + 5))
        life0 == Uniform(_lerp(550000, 850000, e), _lerp(850000, 1250000, e),
                         Rand(r, k + 6))
        radius == Uniform(_lerp(45000, 30000, e), _lerp(70000, 50000, e),
                          Rand(r, k + 7))
    IN [id |-> id, pos |-> <<x, y, z>>, vel |-> <<vx, vy, vz>>,
        life |-> life0, life0 |-> life0, radius |-> radius,
        seed |-> (Rand(r, k + 8) * 9999) \div RandMax]

\* variant of Cap: the slice keeps one particle too many
CapLoose(all) ==
    IF Len(all) > MaxParticles
    THEN SubSeq(all, Len(all) - MaxParticles, Len(all))
    ELSE all

\* variant of Cap: the slice keeps the head of the list
CapKeepOldest(all) ==
    IF Len(all) > MaxParticles
    THEN SubSeq(all, 1, MaxParticles)
    ELSE all

\* lines 270-271: cap count to keep it fast
Cap(all) ==
    IF Len(all) > MaxParticles
    THEN SubSeq(all, Len(all) - MaxParticles + 1, Len(all))
    ELSE all

\* lines 228-271
SpawnParticles(ps, e, r, id0) ==
    LET count == SpawnCount(e, Rand(r, 0))
        n == Max(count, 0)
        all == ps \o [i \in 1..n |-> NewParticle(e, r, 1 + 9 * (i - 1), id0 + i)]
        kept == Cap(all)
        keptIds == {kept[i].id : i \in 1..Len(kept)}
    IN [particles |-> kept,
        evicted |-> IF Len(kept) = Len(all) THEN <<>>
                    ELSE SelectSeq(all, LAMBDA p : p.id \notin keptIds),
        created |-> n,
        rng |-> RandAfter(r, 1 + 9 * n)]

(***************************************************************************)
(* _update_particles                                                       *)
(***************************************************************************)
\* dt = n / 120 in microseconds, rounded towards zero as the double is
DtMicros(n) ==
    IF n >= 0 THEN (n * 1000000) \div DtDen ELSE -((-n * 1000000) \div DtDen)

\* variant of Decay: the timestep of the timer whatever dt is
DecayFixed(life, dt) == life - 8333

\* line 287
Decay(life, dt) == life - dt

\* variant of Expired: tests the initial life
ExpiredWrongField(p) == p.life0 <= 0

\* line 288
Expired(p) == p.life <= 0

\* variant of Age01: the fraction of life left
LifeLeft01(p) == FracMilli(p.life, Max(p.life0, 1))

\* lines 154 and 291
Age01(p) == 1000 - FracMilli(p.life, Max(p.life0, 1))

\* variant of Grow: the radius shrinks
GrowShrink(radius, n) == radius - (radius * n) \div (4 * DtDen)

\* line 312
Grow(radius, n) == radius + (radius * n) \div (4 * DtDen)

\* lines 291-317: the physics of one particle that stays alive;
\* rem is timer.remainingTime() in milliseconds
Physics(p, e, n, rem) ==
    LET buoyancy == _lerp(1200, 3200, e)
        swirl == _lerp(800, 2100, e)
        damping == _lerp(9850, 9920, e)
        t == rem % 1000
        phase == p.seed + Age01(p) * 6 + t * 3
        tx == (SinRad((phase * 37) \div 10) * CosRad((phase * 19) \div 10)) \div 1000
        tz == (CosRad((phase * 29) \div 10) * SinRad((phase * 23) \div 10)) \div 1000
        vy == Mul(p.vel[2] + (buoyancy * n) \div DtDen, damping, 10000)
        vx == Mul(p.vel[1] + (Mul(swirl, tx, 1000) * n) \div DtDen, damping, 10000)
        vz == Mul(p.vel[3] + (Mul(swirl, tz, 1000) * n) \div DtDen, damping, 10000)
    IN [p EXCEPT !.vel = <<vx, vy, vz>>,
                 !.pos = <<Mul(p.pos[1] + (vx * n) \div DtDen, 999, 1000),
                           p.pos[2] + (vy * n) \div DtDen,
                           Mul(p.pos[3] + (vz * n) \div DtDen, 999, 1000)>>,
                 !.radius = Grow(p.radius, n)]

\* lines 277-321
UpdateParticles(ps, e, n, rem) ==
    LET aged == [i \in 1..Len(ps) |->
                    [ps[i] EXCEPT !.life = Decay(ps[i].life, DtMicros(n))]]
        live == SelectSeq(aged, LAMBDA p : ~Expired(p))
    IN [alive |-> [i \in 1..Len(live) |-> Physics(live[i], e, n, rem)],
        removed |-> {aged[i] : i \in {j \in 1..Len(aged) : Expired(aged[j])}}]

(***************************************************************************)
(* paintGL                                                                 *)
(***************************************************************************)
\* line 143
cam_dir == <<0, 0, 1>>

\* line 146: the sort key
SortKey(p) == Dot(p.pos, cam_dir)

\* lines 144-148: sorted(..., reverse=True) is stable, equal keys keep
\* their list order
RECURSIVE parts_sorted(_)
parts_sorted(ps) ==
    IF ps = <<>> THEN <<>>
    ELSE LET front == parts_sorted(SubSeq(ps, 1, Len(ps) - 1))
             p == ps[Len(ps)]
             n == Cardinality({i \in 1..Len(front) : SortKey(front[i]) >= SortKey(p)})
         IN SubSeq(front, 1, n) \o <<p>> \o SubSeq(front, n + 1, Len(front))

\* lines 153-160: the spheres drawn, in drawing order
PaintGL(ps) ==
    LET sorted == parts_sorted(ps)
    IN [i \in 1..Len(sorted) |->
           [id |-> sorted[i].id, pos |-> sorted[i].pos,
            radius |-> sorted[i].radius, age01 |-> Age01(sorted[i]),
            alpha |-> (180 * (1000 - Age01(sorted[i]))) \div 1000 + 20]]

\* lines 135-137: the direction the camera looks along, in world
\* coordinates, for the modelview matrix T * Rx(rot_x) * Ry(rot_y)
ViewForward(rx, ry) ==
    << (Sin1000(ry) * Cos1000(rx)) \div 1000,
       -Sin1000(rx),
       -((Cos1000(ry) * Cos1000(rx)) \div 1000) >>

(***************************************************************************)
(* State after MainWindow() is built.                                      *)
(***************************************************************************)
Init ==
    /\ particles = <<>>
    /\ energy = 50
    /\ rot_x = 36
    /\ rot_y = 70
    /\ is_dragging = FALSE
    /\ last_mouse_pos = <<>>
    /\ rng \in {<<k, 0>> : k \in 0..MaxKey}
    /\ nextId = 0
    /\ last_dt = 0
    /\ drawn = <<>>
    /\ evicted = <<>>
    /\ removed = {}
    /\ dead = {}
    /\ spawns = 0
    /\ advances = 0
    /\ moves = 0
    /\ drags = 0

(***************************************************************************)
(* Steps.                                                                  *)
(***************************************************************************)
\* _spawn_particles()
DoSpawn ==
    LET s == SpawnParticles(particles, energy, rng, nextId)
    IN /\ particles' = s.particles
       /\ evicted' = s.evicted
       /\ nextId' = nextId + s.created
       /\ rng' = s.rng
       /\ removed' = {}
       /\ spawns' = spawns + 1
       /\ UNCHANGED <<energy, rot_x, rot_y, is_dragging, last_mouse_pos,
                      last_dt, drawn, dead, advances, moves, drags>>

\* _update_particles(n / 120)
DoUpdate(n, rem) ==
    LET u == UpdateParticles(particles, energy, n, rem)
    IN /\ particles' = u.alive
       /\ removed' = u.removed
       /\ dead' = dead \cup {q.id : q \in u.removed}
       /\ last_dt' = DtMicros(n)
       /\ evicted' = <<>>
       /\ advances' = advances + 1
       /\ UNCHANGED <<energy, rot_x, rot_y, is_dragging, last_mouse_pos, rng,
                      nextId, drawn, spawns, moves, drags>>

\* fire_widget.energy = e
SetEnergy(e) ==
    /\ e # energy
    /\ moves < MaxMoves
    /\ energy' = e
    /\ moves' = moves + 1
    /\ UNCHANGED <<particles, rot_x, rot_y, is_dragging, last_mouse_pos, rng,
                   nextId, last_dt, drawn, evicted, removed, dead,
                   spawns, advances, drags>>

Spawn == spawns < MaxSpawns /\ DoSpawn

Update == advances < MaxAdvances /\ \E n \in ValidDts : DoUpdate(n, 8)

\* ControlBar.on_energy_changed: the slider gives 0..100
on_energy_changed == \E v \in SliderValues : SetEnergy(v)

paintGL ==
    /\ drawn' = PaintGL(particles)
    /\ UNCHANGED <<particles, energy, rot_x, rot_y, is_dragging,
                   last_mouse_pos, rng, nextId, last_dt, evicted, removed,
                   dead, spawns, advances, moves, drags>>

mousePressEvent ==
    /\ ~is_dragging
    /\ \E pos \in PressPositions : last_mouse_pos' = pos
    /\ is_dragging' = TRUE
    /\ UNCHANGED <<particles, energy, rot_x, rot_y, rng, nextId, last_dt,
                   drawn, evicted, removed, dead, spawns, advances, moves,
                   drags>>

mouseMoveEvent ==
    /\ is_dragging
    /\ last_mouse_pos # <<>>
    /\ drags < MaxDrags
    /\ \E pos \in MovePositions :
          /\ rot_x' = rot_x + (pos[2] - last_mouse_pos[2])
          /\ rot_y' = rot_y + (pos[1] - last_mouse_pos[1])
          /\ last_mouse_pos' = pos
    /\ drags' = drags + 1
    /\ UNCHANGED <<particles, energy, is_dragging, rng, nextId, last_dt,
                   drawn, evicted, removed, dead, spawns, advances, moves>>

mouseReleaseEvent ==
    /\ is_dragging
    /\ is_dragging' = FALSE
    /\ UNCHANGED <<particles, energy, rot_x, rot_y, last_mouse_pos, rng,
                   nextId, last_dt, drawn, evicted, removed, dead, spawns,
                   advances, moves, drags>>

(***************************************************************************)
(* Spec: the particle system driven by any caller with valid inputs        *)
(* (energy from the slider, dt > 0).                                       *)
(***************************************************************************)
Next == Spawn \/ Update \/ on_energy_changed

Spec == Init /\ [][Next]_vars

(***************************************************************************)
(* SpecView: the renderer and the camera.                                  *)
(***************************************************************************)
ViewUpdate ==
    advances < MaxAdvances /\ \E rem \in TimerRemaining : DoUpdate(1, rem)

NextView ==
    \/ Spawn
    \/ ViewUpdate
    \/ paintGL
    \/ mousePressEvent
    \/ mouseMoveEvent
    \/ mouseReleaseEvent

SpecView == Init /\ [][NextView]_vars

(***************************************************************************)
(* SpecTick: the program's own loop.  The timer runs tick() every 8 ms;    *)
(* tick is split at the call boundary between its two steps.  The slider   *)
(* may move between ticks, every SliderPeriod-th one.                      *)
(***************************************************************************)
\* line 220
TickSpawn == spawns = advances /\ spawns < MaxFrames /\ DoSpawn

\* lines 221-222
TickUpdate == spawns = advances + 1 /\ DoUpdate(1, 8)

TickSlider ==
    /\ spawns = advances
    /\ spawns % SliderPeriod = 0
    /\ on_energy_changed

NextTick == TickSpawn \/ TickUpdate \/ TickSlider

SpecTick == Init /\ [][NextTick]_vars

(***************************************************************************)
(* SpecCap: a caller that writes a very large energy, so that two spawns   *)
(* fill the collection.                                                    *)
(***************************************************************************)
CapEnergy == \E e \in CapEnergies : SetEnergy(e)

CapSpawn == spawns < MaxCapSpawns /\ DoSpawn

CapUpdate == advances < MaxCapAdvances /\ DoUpdate(1, 8)

NextCap == CapSpawn \/ CapUpdate \/ CapEnergy

SpecCap == Init /\ [][NextCap]_vars

(***************************************************************************)
(* SpecRaw: a caller that writes energies outside [0, 1] and passes        *)
(* time steps that are not positive.                                       *)
(***************************************************************************)
RawEnergy == \E e \in RawEnergies : SetEnergy(e)

RawUpdate == advances < MaxAdvances /\ \E n \in RawDts : DoUpdate(n, 8)

NextRaw == Spawn \/ RawUpdate \/ RawEnergy

SpecRaw == Init /\ [][NextRaw]_vars

(***************************************************************************)
(* Properties.                                                             *)
(***************************************************************************)
Ids(ps) == {ps[i].id : i \in 1..Len(ps)}

\* the particle of ps that has this id
ById(ps, id) == ps[CHOOSE i \in 1..Len(ps) : ps[i].id = id]

InsertionOrdered(ps) == \A i \in 1..(Len(ps) - 1) : ps[i].id < ps[i + 1].id

\* advances with dt = 1/120 a particle has been through
Survived(p) == (p.life0 - p.life) \div 8333

\* C1: the collection never holds more than 2500 particles, whatever the
\* energy and however full it was before the spawn.
C1_PopulationCapped == Len(particles) <= 2500

\* a spawn into a collection that already held 2500 particles cut it to 2500
C1_Witness ==
    /\ evicted # <<>>
    /\ Len(particles) = 2500
    /\ advances = 0
    /\ nextId >= 3 * 1276

\* C2: a spawn that overfills the collection keeps exactly the 2500 most
\* recently inserted particles, unchanged and in insertion order, and cuts
\* off exactly the oldest ones; updates keep the survivors in insertion
\* order, so the list is always ordered oldest first.
C2_EvictOldestInserted ==
    [][ /\ InsertionOrdered(particles')
        /\ spawns' = spawns + 1 =>
             LET total == Len(particles) + (nextId' - nextId)
                 cut == Len(evicted')
             IN /\ Len(particles') = Min(total, 2500)
                /\ cut = total - Len(particles')
                /\ \A i \in 1..Len(particles) :
                      IF i <= cut
                      THEN evicted'[i] = particles[i]
                      ELSE particles'[i - cut] = particles[i]
                /\ \A i \in (Len(particles) + 1)..cut :
                      evicted'[i].id = nextId + (i - Len(particles))
                /\ \A j \in 1..Len(particles') :
                      j + cut > Len(particles) =>
                          particles'[j].id = nextId + (j + cut - Len(particles))
      ]_vars

\* after an update, a spawn cut off a particle with more life left than one
\* it kept
C2_Witness ==
    /\ evicted # <<>>
    /\ advances > 0
    /\ \E i \in 1..Len(evicted) : \E j \in 1..Len(particles) :
          evicted[i].life > particles[j].life

\* C3: with energy in [0, 1] and dt > 0 every particle in the collection has
\* 0 < life <= life0.
C3_LifeInRange ==
    \A i \in 1..Len(particles) :
        /\ 0 < particles[i].life
        /\ particles[i].life <= particles[i].life0
        /\ particles[i].life0 > 0

\* an update dropped some particles and aged the ones it kept
C3_Witness ==
    /\ removed # {}
    /\ \E i \in 1..Len(particles) : particles[i].life < particles[i].life0

\* C4: an update lowers every life by exactly dt and leaves out exactly the
\* particles whose lowered life is <= 0, which it changes in no other way;
\* a particle left out is in no later collection.
C4_AgeAndRemove ==
    [][ /\ dead' \cap Ids(particles') = {}
        /\ dead \subseteq dead'
        /\ advances' = advances + 1 =>
             /\ \A i \in 1..Len(particles) :
                   (particles[i].life - last_dt' <= 0)
                       <=> particles[i].id \notin Ids(particles')
             /\ \A j \in 1..Len(particles') :
                   /\ particles'[j].id \in Ids(particles)
                   /\ particles'[j].life
                        = ById(particles, particles'[j].id).life - last_dt'
             /\ removed' =
                   {[particles[i] EXCEPT !.life = @ - last_dt'] :
                       i \in {k \in 1..Len(particles) :
                                 particles[k].id \notin Ids(particles')}}
             /\ dead' = dead \cup {q.id : q \in removed'}
      ]_vars

\* an update of half a second dropped some particles and kept others
C4_Witness ==
    /\ removed # {}
    /\ particles # <<>>
    /\ last_dt = 500000

\* C5: the age fraction of every particle in the collection, and of every
\* sphere drawn, is in [0, 1]; it is 0 when the particle is inserted and
\* never decreases while the particle stays in the collection.
C5_AgeFraction ==
    [][ /\ \A j \in 1..Len(particles') :
              /\ 0 <= Age01(particles'[j])
              /\ Age01(particles'[j]) <= 1000
              /\ IF particles'[j].id \in Ids(particles)
                 THEN Age01(particles'[j])
                        >= Age01(ById(particles, particles'[j].id))
                 ELSE Age01(particles'[j]) = 0
        /\ \A j \in 1..Len(drawn') :
              /\ 0 <= drawn'[j].age01
              /\ drawn'[j].age01 <= 1000
              /\ drawn'[j].id \in Ids(particles') =>
                    drawn'[j].age01 <= Age01(ById(particles', drawn'[j].id))
      ]_vars

\* a frame drew a particle that had aged
C5_Witness ==
    /\ \E i \in 1..Len(particles) : Age01(particles[i]) > 0
    /\ \E j \in 1..Len(drawn) : drawn[j].age01 > 0

\* C6: the radius of a particle never decreases; an update multiplies it by
\* 1 + 0.25 dt and no other step changes it.
C6_RadiusGrows ==
    [][ \A j \in 1..Len(particles') :
          particles'[j].id \in Ids(particles) =>
             LET old == ById(particles, particles'[j].id).radius
                 n == (last_dt' * 120 + 999999) \div 1000000
             IN /\ particles'[j].radius >= old
                /\ IF advances' = advances + 1
                   THEN particles'[j].radius = old + (old * n) \div 480
                   ELSE particles'[j].radius = old
      ]_vars

\* a particle is larger than any spawn makes it
C6_Witness ==
    /\ advances > 0
    /\ \E i \in 1..Len(particles) : particles[i].radius > 70000

\* C7: with energy in [0, 1] a spawn inserts floor(rate) or floor(rate) + 1
\* particles, rate = 1.5 + 8.5 energy, the extra one only when rate has a
\* fractional part: 1 or 2 into an empty system at energy 0, exactly 10 at
\* energy 1.
C7_SpawnCount ==
    [][ spawns' = spawns + 1 =>
          LET n == nextId' - nextId
              rate == 1500000 + 85000 * energy
              whole == rate \div 1000000
          IN /\ n \in {whole, whole + 1}
             /\ rate % 1000000 = 0 => n = whole
             /\ Len(particles') = Len(particles) + n
             /\ energy = 100 => n = 10
             /\ (energy = 0 /\ particles = <<>>) => Len(particles') \in {1, 2}
      ]_vars

\* the first spawn, at energy 0, inserted the extra particle
C7_Witness == spawns = 1 /\ energy = 0 /\ Len(particles) = 2 /\ nextId = 2

\* C8: an energy outside [0, 1] acts as the nearest of 0 and 1 (so a spawn
\* inserts at most 10 particles, with life0 in [0.55, 1.25]) and a negative
\* dt raises no particle's life.
C8_InputsClamped ==
    [][ /\ spawns' = spawns + 1 =>
             /\ nextId' - nextId <= 10
             /\ particles' = SpawnParticles(particles, _clamp01(energy), rng,
                                            nextId).particles
             /\ \A j \in 1..Len(particles') :
                   /\ particles'[j].life0 >= 550000
                   /\ particles'[j].life0 <= 1250000
        /\ advances' = advances + 1 =>
             \A j \in 1..Len(particles') :
                particles'[j].life <= ById(particles, particles'[j].id).life
      ]_vars

\* C9: a frame draws every particle of the collection exactly once, leaves
\* the collection as it is, and draws in non-increasing order of depth, the
\* dot product of the position with the camera's view-forward vector.
C9_DepthOrder ==
    [][ drawn' # drawn =>
          LET depth(d) == Dot(d.pos, ViewForward(rot_x', rot_y'))
          IN /\ particles' = particles
             /\ Len(drawn') = Len(particles')
             /\ {drawn'[i].id : i \in 1..Len(drawn')} = Ids(particles')
             /\ \A i \in 1..(Len(drawn') - 1) :
                   depth(drawn'[i]) >= depth(drawn'[i + 1])
      ]_vars

\* C10 as stated: under the tick loop the cap is never taken, and no
\* particle is still in the collection after 150 updates.
C10_RemovedWithin150 ==
    /\ evicted = <<>>
    /\ Len(particles) < 2500
    /\ \A i \in 1..Len(particles) : Survived(particles[i]) < 150

\* C10 amended: under the tick loop at most 10 particles are inserted per
\* tick and no particle is in the collection after 151 updates, so the
\* collection holds at most 1510 particles and the cap is never taken.
C10_TickPopulation ==
    /\ evicted = <<>>
    /\ nextId <= 10 * spawns
    /\ Len(particles) <= 1510
    /\ \A i \in 1..Len(particles) :
          /\ particles[i].life > 0
          /\ Survived(particles[i]) >= 0
          /\ Survived(particles[i]) <= 150
          /\ particles[i].id > nextId - 1510

\* 151 ticks of 10 particles are all in the collection, the oldest after 150
\* updates
C10_Witness ==
    /\ Len(particles) = 1510
    /\ \E i \in 1..Len(particles) : Survived(particles[i]) = 150

====
